---- MODULE Spec2Model ----
(***************************************************************************)
(* Model of the nod-and-know PDF fact checker                              *)
(* (src/src/factchecker/SimplePDFFactChecker.py).                          *)
(*                                                                         *)
(* The specifications of this module:                                      *)
(*   ChunkSpec    - chunk_text_with_overlap run on one text, one loop      *)
(*                  iteration per step (FairChunkSpec: with fairness;      *)
(*                  ScenarioSpec: on 700-character texts);                 *)
(*   Spec         - the ingestion sweep (_update_database_if_needed) over  *)
(*                  a directory of documents, with the fingerprint file,   *)
(*                  the vector store, failures and process crashes;        *)
(*   LockSpec     - threads calling the sweep on one checker;              *)
(*   ApiSpec      - the process of factcheck_api.py;                       *)
(*   FactSpec     - one call of simple_fact_check and the status the      *)
(*                  endpoint reports for its verdict;                      *)
(*   StatsSpec    - one call of get_database_stats;                        *)
(*   MemSpec      - one call of MemoryMonitor.check_memory;                *)
(*   PageSpec     - the page loop of _process_single_pdf.                  *)
(* In Spec the chunk list of a document version is an attribute of the     *)
(* document (its length); the chunker itself is examined in ChunkSpec.     *)
(***************************************************************************)
EXTENDS Integers, Sequences, FiniteSets, TLC

VARIABLES
    \* ---- chunk_text_with_overlap ----
    text,        \* the input string, a sequence of characters
    chunk_size,  \* self.chunk_size
    overlap,     \* self.overlap
    start,       \* cursor (may become negative, Python indexing)
    end,         \* end of the window of the last iteration
    chunks,      \* the list `chunks`: <<lo, hi>> bounds of each stripped chunk
    cpc,         \* "entry" | "loop" | "done"
    cexit,       \* how the function returned: "none" | "early" | "normal" | "IndexError" | "MemoryError"
    result,      \* the returned list
    windows      \* history: the windows <<start, end>> the loop has visited

cvars == <<text, chunk_size, overlap, start, end, chunks, cpc, cexit, result, windows>>

VARIABLES
    \* ---- the document directory, the fingerprint file, the vector store ----
    file,              \* file[d]: [present, size, modified] of document d in pdf_directory
    metaFile,          \* pdf_metadata.json: [ok, map]; ok = FALSE when json.load fails on it
    store,             \* the collection: records [source, chunk_id, version], one per id
    \* ---- one process running _update_database_if_needed ----
    pc,                \* "idle" | "remove" | "process" | "batch" | "save" | "write"
    current_metadata,  \* the sweep's in-memory fingerprint map
    queue,             \* new_or_updated_pdfs not yet finished, current document first
    batch_idx,         \* batch_idx of _process_chunks_in_batches
    unreadable,        \* documents whose stat() raised in _find_new_or_updated_pdfs
    \* ---- bookkeeping of the run ----
    edits,             \* changes made to the directory so far
    faults,            \* exceptions raised by collaborators, and crashes, so far
    sweeps,            \* sweeps started so far
    didOp,             \* the current sweep has called collection.add or collection.delete
    trouble,           \* the current sweep saw an exception reach a handler that skips work
    cleanRuns,         \* sweeps completed in a row without trouble since the last edit
    lastEnd,           \* what happened last: "none" | "edited" | "clean" | "trouble" | "crashed"
    oldFile,           \* what pdf_metadata.json held when the save opened it
    failedDocs,        \* documents of the current sweep for which a step raised
    removedDocs,       \* documents of the current sweep for which _remove_old_chunks ran
    crashedDocs,       \* documents a crash interrupted before their fingerprint was saved
    loads              \* whether the reads of lines 108 and 208 succeeded in the last sweep

svars == <<file, metaFile, store, pc, current_metadata, queue, batch_idx, unreadable,
           edits, faults, sweeps, didOp, trouble, cleanRuns, lastEnd, oldFile,
           failedDocs, removedDocs, crashedDocs, loads>>

VARIABLES
    \* ---- one call of simple_fact_check ----
    message,               \* the argument: a sequence of characters
    msgIsStr,              \* FALSE: the caller passed a list instead of a str
    similarity_threshold,  \* the argument, in tenths
    indexEmpty,            \* the collection holds no chunk
    sentences,             \* the list `sentences` after line 483: <<lo, hi>> bounds
    si,                    \* position of the for loop of line 492 in `sentences`
    results,               \* the dict `results`
    qpc,                   \* "entry" | "loop" | "done" | "answered"
    retrievals,            \* history: the calls of retrieve_relevant_context and their outcomes
    status                 \* the status the endpoint reports for the verdict, "none" before

qvars == <<message, msgIsStr, similarity_threshold, indexEmpty, sentences, si,
           results, qpc, retrievals, status>>

VARIABLES
    \* ---- threads, locks and the published checker ----
    tpc,               \* tpc[t]: where thread t is
    processing_lock,   \* holder of SimplePDFFactChecker.processing_lock, or "free"
    factchecker_lock,  \* holder of factcheck_api.factchecker_lock, or "free"
    factchecker,       \* the global of factcheck_api: "None" | "ready"
    phase,             \* the chunks of the document being replaced: "old" | "deleted" | "partial" | "new"
    calls,             \* sweeps and requests started so far
    answers            \* history: <<HTTP status, phase read, body>> of the answered requests

avars == <<tpc, processing_lock, factchecker_lock, factchecker, phase, calls, answers>>

VARIABLES
    \* ---- one call of get_database_stats ----
    collection,    \* the entries of the store in the order get() pages them: their source names
    total_chunks,  \* the local total_chunks
    stat_sources,  \* the local set `sources`
    offset,        \* the local offset
    gpc,           \* "entry" | "scan" | "done"
    stats          \* the returned dict

tvars == <<collection, total_chunks, stat_sources, offset, gpc, stats>>

VARIABLES
    \* ---- one call of MemoryMonitor.check_memory ----
    max_memory_gb,  \* the ceiling, in GB
    rss,            \* the memory the process holds, in GB
    checkpoint,     \* the call site
    sampled,        \* history: the samples check_memory has read
    collected,      \* gc.collect() calls made by check_memory
    mpc,            \* "check" | "recheck" | "done"
    mexit,          \* how the call ended: "none" | "returned" | "raised"
    memory_gb       \* the value returned

mvars == <<max_memory_gb, rss, checkpoint, sampled, collected, mpc, mexit, memory_gb>>

VARIABLES
    \* ---- the page loop of one call of _process_single_pdf ----
    doc,        \* the open document: its page count, the pages whose extraction
                \* raises and the pages without text
    page_num,   \* the loop variable (pages are numbered from 0)
    page_text,  \* the local `text`: the numbers of the pages appended, in order
    ppc         \* "open" | "pages" | "clean" | "skipped" | "raised"

pvars == <<doc, page_num, page_text, ppc>>

\* the variables of the query path, of the API process, of the statistics, of
\* the memory monitor and of the page loop
rest == <<qvars, avars, tvars, mvars, pvars>>

vars == <<cvars, svars, qvars, avars, tvars, mvars, pvars>>

Min(a, b) == IF a < b THEN a ELSE b
Max(a, b) == IF a > b THEN a ELSE b

-----------------------------------------------------------------------------
(* Bounds of the chunker specification *)

\* longest input text; the texts tried are the last TextLenSpan lengths up to it
MaxTextLen == 52
TextLenSpan == 3
\* last position at which a text carries its space or its terminator
MaxMark == 22
\* the list `chunks` raises MemoryError when it would grow past this length
MaxChunkList == 3

-----------------------------------------------------------------------------
(* Bounds of the sweep specification *)

MaxEdits == 1
MaxFaults == 1
MaxSweeps == 2

-----------------------------------------------------------------------------
(* The document directory *)

\* the documents, in the order pdf_directory.glob("*.pdf") lists them
Listing == <<"A.pdf", "B.pdf", "C.pdf", "D.pdf">>
Docs == { Listing[i] : i \in 1 .. Len(Listing) }

\* file sizes in MB a document is rewritten to; the size of a file stands for
\* its content (document C starts as a 3 MB scan without text)
Sizes == {1, 2, 60}

\* how many chunks chunk_text_with_overlap yields from the text of a file of
\* this size (3 MB: a scan without text)
DocChunks(size) == CASE size = 1 -> 6 [] size = 2 -> 2 [] size = 3 -> 0 [] size = 60 -> 2

\* a fingerprint map without entries
EmptyMap == <<>>

-----------------------------------------------------------------------------
(* Python string primitives on a text t (TLA+ sequences are 1-based,       *)
(* Python positions are 0-based: position i is t[i+1]).                    *)

IsSpace(c) == c = " "

\* bound of a slice t[i:...] or t[...:i] for a string of length n
SliceIdx(i, n) == IF i < 0 THEN Max(i + n, 0) ELSE Min(i, n)

\* t[s:e] as the pair <<lo, hi>> of 0-based positions, hi exclusive
Slice(t, s, e) ==
    LET lo == SliceIdx(s, Len(t))
        hi == SliceIdx(e, Len(t))
    IN  <<lo, Max(lo, hi)>>

\* chunk.rfind over a class of characters: index relative to the chunk, or -1
RFind(t, ch, class) ==
    LET hits == { i \in ch[1] .. (ch[2] - 1) : t[i + 1] \in class }
    IN  IF hits = {} THEN -1
        ELSE (CHOOSE i \in hits : \A j \in hits : j <= i) - ch[1]

\* chunk.strip()
Strip(t, ch) ==
    LET keep == { i \in ch[1] .. (ch[2] - 1) : ~IsSpace(t[i + 1]) }
    IN  IF keep = {} THEN <<ch[1], ch[1]>>
        ELSE <<CHOOSE i \in keep : \A j \in keep : i <= j,
               (CHOOSE i \in keep : \A j \in keep : j <= i) + 1>>

ChunkLen(ch) == ch[2] - ch[1]

\* len(chunk.split())
WordCount(t, ch) ==
    Cardinality({ i \in ch[1] .. (ch[2] - 1) :
                    /\ ~IsSpace(t[i + 1])
                    /\ (i = ch[1] \/ IsSpace(t[i])) })

-----------------------------------------------------------------------------
(* chunk_text_with_overlap *)

\* len(text.strip()) < 50, the guard of the early return
MinStrippedLen == 50
\* len(chunk) > 50, the test a chunk passes to be appended
MinChunkLen == 50
\* len(chunk.split()) >= 5 in the final filter
MinChunkWords == 5

\* `not text or len(text.strip()) < 50`
TooShort(t) ==
    \/ Len(t) = 0
    \/ ChunkLen(Strip(t, <<0, Len(t)>>)) < MinStrippedLen

\* end = min(start + self.chunk_size, text_len)
HardEnd(t, s, size) == Min(s + size, Len(t))

\* text[end] raises IndexError: a negative index below -len(text)
IndexFails(t, e) == e < 0 /\ e + Len(t) < 0

\* text[end] for an index that does not raise
CharAt(t, e) == IF e < 0 THEN t[e + Len(t) + 1] ELSE t[e + 1]

\* max(chunk.rfind('.'), chunk.rfind('!'), chunk.rfind('?'))
SentenceEnd(t, ch) == RFind(t, ch, {".", "!", "?"})

\* chunk.rfind(' ')
LastSpace(t, ch) == RFind(t, ch, {" "})

\* the `end` one iteration settles on, for a window whose text[end] is readable
SnapEnd(t, s, size) ==
    LET e0 == HardEnd(t, s, size)
        c0 == Slice(t, s, e0)
    IN  IF e0 < Len(t) /\ ~IsSpace(CharAt(t, e0))
        THEN IF SentenceEnd(t, c0) > s + (size \div 3)
             THEN s + SentenceEnd(t, c0) + 1
             ELSE IF LastSpace(t, c0) > s + (size \div 2)
                  THEN s + LastSpace(t, c0)
                  ELSE e0
        ELSE e0

\* a cursor that restarts at the end of the window, without overlap
NextStartAtEnd(e, ov) == e

\* start = end - self.overlap
NextStart(e, ov) == e - ov

\* valid_chunks = [chunk for chunk in chunks if len(chunk.split()) >= 5 and len(chunk) >= 50]
ValidChunks(t, cs) ==
    SelectSeq(cs, LAMBDA ch : WordCount(t, ch) >= MinChunkWords /\ ChunkLen(ch) >= MinChunkLen)

\* the texts tried: letters, with at most one space (among the first positions
\* or at the very end) and at most one terminator; -1 is "none"
MkText(n, sp, dp) ==
    [i \in 1 .. n |-> IF i - 1 = dp THEN "." ELSE IF i - 1 = sp THEN " " ELSE "a"]

TextLens == (MaxTextLen - TextLenSpan) .. MaxTextLen

\* (chunk_size, overlap): the constructor default, the API's and the __main__
\* block's setting, and small windows that make the loop take several iterations
Configs == { <<500, 100>>, <<400, 50>>, <<20, 5>>, <<20, 15>>, <<20, 19>>, <<60, 52>> }

\* the variables of a call of simple_fact_check while another part is examined
QueryParked ==
    /\ message = <<>>
    /\ msgIsStr = TRUE
    /\ similarity_threshold = 6
    /\ indexEmpty = TRUE
    /\ sentences = <<>>
    /\ si = 1
    /\ results = [is_supported |-> TRUE, confidence |-> 10, claim_results |-> <<>>,
                  sources |-> <<>>, error |-> FALSE]
    /\ qpc = "done"
    /\ retrievals = <<>>
    /\ status = "none"

\* the threads of the API process: the one that builds the checker, two request handlers
Threads == {"init", "h1", "h2"}

\* the variables of the API process while another part is examined
ApiParked ==
    /\ tpc = [t \in Threads |-> "off"]
    /\ processing_lock = "free"
    /\ factchecker_lock = "free"
    /\ factchecker = "None"
    /\ phase = "old"
    /\ calls = 0
    /\ answers = {}

StatsParked ==
    /\ collection = <<>>
    /\ total_chunks = 0
    /\ stat_sources = {}
    /\ offset = 0
    /\ gpc = "done"
    /\ stats = [error |-> FALSE, total_chunks |-> 0, unique_sources |-> 0, sources |-> {}]

\* the page loop's variables while another operation is examined
PagesParked ==
    /\ doc = [count |-> 0, bad |-> {}, blank |-> {}]
    /\ page_num = 0
    /\ page_text = <<>>
    /\ ppc = "clean"

MemoryParked ==
    /\ max_memory_gb = 4
    /\ rss = 0
    /\ checkpoint = "Initial"
    /\ sampled = <<>>
    /\ collected = 0
    /\ mpc = "done"
    /\ mexit = "none"
    /\ memory_gb = 0

\* the sweep's variables while the chunker is examined
SweepParked ==
    /\ file = [d \in Docs |-> [present |-> FALSE, size |-> 1, modified |-> 0]]
    /\ metaFile = [ok |-> TRUE, map |-> EmptyMap]
    /\ store = {}
    /\ pc = "idle"
    /\ current_metadata = EmptyMap
    /\ queue = <<>>
    /\ batch_idx = 0
    /\ unreadable = {}
    /\ edits = 0
    /\ faults = 0
    /\ sweeps = 0
    /\ didOp = FALSE
    /\ trouble = FALSE
    /\ cleanRuns = 0
    /\ lastEnd = "none"
    /\ oldFile = [ok |-> TRUE, map |-> EmptyMap]
    /\ failedDocs = {}
    /\ removedDocs = {}
    /\ crashedDocs = {}
    /\ loads = <<TRUE, TRUE>>

\* a call of chunk_text_with_overlap on one of the texts ts
ChunkCall(ts) ==
    /\ SweepParked
    /\ QueryParked
    /\ ApiParked
    /\ StatsParked
    /\ MemoryParked /\ PagesParked
    /\ text \in ts
    /\ \E c \in Configs : chunk_size = c[1] /\ overlap = c[2]
    /\ start = 0
    /\ end = 0
    /\ chunks = <<>>
    /\ cpc = "entry"
    /\ cexit = "none"
    /\ result = <<>>
    /\ windows = {}

ChunkInit ==
    ChunkCall({ MkText(n, sp, dp) :
                  n \in TextLens, dp \in -1 .. MaxMark, sp \in -1 .. MaxMark }
              \cup { MkText(n, n - 1, dp) : n \in TextLens, dp \in -1 .. MaxMark })

\* the function returns (or its except clause does, with [])
Return(how, res) ==
    /\ cpc' = "done"
    /\ cexit' = how
    /\ result' = res

\* lines 408-413: the early return, or the loop is entered with start = 0
ChunkEnter ==
    /\ cpc = "entry"
    /\ IF TooShort(text)
       THEN /\ Return("early", <<>>)
            /\ UNCHANGED <<start, chunks>>
       ELSE /\ cpc' = "loop"
            /\ start' = 0
            /\ chunks' = <<>>
            /\ UNCHANGED <<cexit, result>>
    /\ UNCHANGED <<text, chunk_size, overlap, end, windows>>
    /\ UNCHANGED <<svars, rest>>

\* lines 415-433: one window: hard cut, boundary snapping, strip, append
ChunkWindow ==
    /\ cpc = "loop"
    /\ LET e0 == HardEnd(text, start, chunk_size)
       IN  IF e0 < Len(text) /\ IndexFails(text, e0)
           THEN /\ Return("IndexError", <<>>)
                /\ UNCHANGED <<end, chunks, windows>>
           ELSE LET e1 == SnapEnd(text, start, chunk_size)
                    ch == Strip(text, Slice(text, start, e1))
                IN  /\ end' = e1
                    /\ windows' = windows \cup {<<start, e1>>}
                    /\ IF ChunkLen(ch) > MinChunkLen
                       THEN IF Len(chunks) >= MaxChunkList
                            THEN /\ Return("MemoryError", <<>>)
                                 /\ UNCHANGED chunks
                            ELSE /\ chunks' = Append(chunks, ch)
                                 /\ cpc' = "advance"
                                 /\ UNCHANGED <<cexit, result>>
                       ELSE /\ cpc' = "advance"
                            /\ UNCHANGED <<chunks, cexit, result>>
    /\ UNCHANGED <<text, chunk_size, overlap, start>>
    /\ UNCHANGED <<svars, rest>>

\* lines 435-443: advance the cursor; leave the loop when start >= text_len
ChunkAdvance ==
    /\ cpc = "advance"
    /\ start' = NextStart(end, overlap)
    /\ IF start' >= Len(text)
       THEN Return("normal", ValidChunks(text, chunks))
       ELSE /\ cpc' = "loop"
            /\ UNCHANGED <<cexit, result>>
    /\ UNCHANGED <<text, chunk_size, overlap, end, chunks, windows>>
    /\ UNCHANGED <<svars, rest>>

ChunkNext ==
    \/ ChunkEnter
    \/ ChunkWindow
    \/ ChunkAdvance

ChunkSpec == ChunkInit /\ [][ChunkNext]_vars

\* the same call on a sample of the texts: a running loop keeps taking steps
FairChunkInit ==
    ChunkCall({ MkText(n, sp, dp) : n \in TextLens, dp \in {-1, 8, 17}, sp \in {-1, 12} })

FairChunkSpec == FairChunkInit /\ [][ChunkNext]_vars /\ WF_vars(ChunkNext)

-----------------------------------------------------------------------------
(* The ingestion sweep: _update_database_if_needed and what it calls *)

\* max_pdfs_per_batch
MaxPdfsPerBatch == 3
\* batch_size of _process_chunks_in_batches
BatchSize == 5
\* files above this many MB are skipped
MaxFileMb == 50

\* the chunker's variables while the sweep is examined
ChunkParked ==
    /\ text = <<>>
    /\ chunk_size = 400
    /\ overlap = 50
    /\ start = 0
    /\ end = 0
    /\ chunks = <<>>
    /\ cpc = "done"
    /\ cexit = "none"
    /\ result = <<>>
    /\ windows = {}

\* _load_pdf_metadata: a missing or unparsable file reads as {}
LoadPdfMetadata == IF metaFile.ok THEN metaFile.map ELSE EmptyMap

\* _get_pdf_info (name and path are the document itself)
GetPdfInfo(d) == [size |-> file[d].size, modified |-> file[d].modified]

\* list(self.pdf_directory.glob("*.pdf"))
PdfFiles == SelectSeq(Listing, LAMBDA d : file[d].present)

\* pdf_files[:max_pdfs_per_batch]
Considered == SubSeq(PdfFiles, 1, Min(Len(PdfFiles), MaxPdfsPerBatch))

\* a change test that looks at the size only (a touched file passes unnoticed)
IsNewOrUpdatedBySize(m, d) ==
    \/ d \notin DOMAIN m
    \/ m[d].size # GetPdfInfo(d).size

\* the test of lines 139-141
IsNewOrUpdated(m, d) ==
    \/ d \notin DOMAIN m
    \/ m[d].modified # GetPdfInfo(d).modified
    \/ m[d].size # GetPdfInfo(d).size

\* a read that falls back on what the file held when it cannot be read
ReadOrKeep(ok) == metaFile.map

\* _load_pdf_metadata when open() or json.load may raise (lines 88-93): the
\* exception is logged and {} is returned
ReadPdfMetadata(ok) == IF ok THEN LoadPdfMetadata ELSE EmptyMap

\* _find_new_or_updated_pdfs with the fingerprint map m it has read, when
\* stat() raises for the documents in bad
FindNewOrUpdatedPdfs(bad, m) ==
    SelectSeq(Considered, LAMBDA d : d \notin bad /\ IsNewOrUpdated(m, d))

\* a sweep that forgets the fingerprint of the document it has processed
CommitNothing(m, d) == m

\* current_metadata[pdf_path.name] = self._get_pdf_info(pdf_path)
Commit(m, d) == [x \in (DOMAIN m) \cup {d} |-> IF x = d THEN GetPdfInfo(d) ELSE m[x]]

\* the chunks of document d in the store
ChunksOf(d) == { r \in store : r.source = d }

\* the records one batch of d's chunks adds; ids already in the store are kept as they are
BatchRecords(d, idx) ==
    { [source |-> d, chunk_id |-> i, version |-> file[d].modified] :
        i \in { j \in idx .. (Min(idx + BatchSize, DocChunks(file[d].size)) - 1) :
                  \A r \in ChunksOf(d) : r.chunk_id # j } }

\* where the loop of line 210 goes with the documents q left: the next
\* document's removal or processing, or the save after the loop
DocEntry(m, q) ==
    IF q = <<>> THEN "save"
    ELSE IF Head(q) \in DOMAIN m THEN "remove" ELSE "process"

Init ==
    /\ ChunkParked
    /\ QueryParked
    /\ ApiParked
    /\ StatsParked
    /\ MemoryParked /\ PagesParked
    /\ file = [d \in Docs |->
                 [present |-> TRUE,
                  size |-> CASE d = "A.pdf" -> 1 [] d = "B.pdf" -> 2
                             [] d = "C.pdf" -> 3 [] OTHER -> 2,
                  modified |-> 0]]
    /\ metaFile = [ok |-> TRUE, map |-> EmptyMap]
    /\ store = {}
    /\ pc = "idle"
    /\ current_metadata = EmptyMap
    /\ queue = <<>>
    /\ batch_idx = 0
    /\ unreadable = {}
    /\ edits = 0
    /\ faults = 0
    /\ sweeps = 0
    /\ didOp = FALSE
    /\ trouble = FALSE
    /\ cleanRuns = 0
    /\ lastEnd = "none"
    /\ oldFile = [ok |-> TRUE, map |-> EmptyMap]
    /\ failedDocs = {}
    /\ removedDocs = {}
    /\ crashedDocs = {}
    /\ loads = <<TRUE, TRUE>>

\* the sweep returns to its caller: the lock is released, its locals are gone
SweepEnds(how) ==
    /\ pc' = "idle"
    /\ current_metadata' = EmptyMap
    /\ queue' = <<>>
    /\ batch_idx' = 0
    /\ failedDocs' = {}
    /\ removedDocs' = {}
    /\ lastEnd' = how
    /\ cleanRuns' = IF how = "clean" THEN cleanRuns + 1 ELSE 0

\* lines 210-230 move on to the next document, with fingerprint map m
NextDocument(m) ==
    /\ current_metadata' = m
    /\ queue' = Tail(queue)
    /\ batch_idx' = 0
    /\ pc' = DocEntry(m, Tail(queue))

\* ---- the environment: the directory changes between runs ----

\* the file is touched: new modification time, same size and content
Touch(d) ==
    /\ pc = "idle" /\ edits < MaxEdits
    /\ file[d].present
    /\ file' = [file EXCEPT ![d].modified = @ + 1]
    /\ edits' = edits + 1
    /\ cleanRuns' = 0
    /\ lastEnd' = "edited"
    /\ UNCHANGED <<loads, metaFile, store, pc, current_metadata, queue, batch_idx, unreadable,
                   faults, sweeps, didOp, trouble, oldFile, failedDocs, removedDocs,
                   crashedDocs>>
    /\ UNCHANGED <<cvars, rest>>

\* the file is written with other content (or created)
Rewrite(d, sz) ==
    /\ pc = "idle" /\ edits < MaxEdits
    /\ ~file[d].present \/ file[d].size # sz
    /\ file' = [file EXCEPT ![d] = [present |-> TRUE, size |-> sz, modified |-> @.modified + 1]]
    /\ edits' = edits + 1
    /\ cleanRuns' = 0
    /\ lastEnd' = "edited"
    /\ UNCHANGED <<loads, metaFile, store, pc, current_metadata, queue, batch_idx, unreadable,
                   faults, sweeps, didOp, trouble, oldFile, failedDocs, removedDocs,
                   crashedDocs>>
    /\ UNCHANGED <<cvars, rest>>

\* the file is deleted from the directory
Remove(d) ==
    /\ pc = "idle" /\ edits < MaxEdits
    /\ file[d].present
    /\ file' = [file EXCEPT ![d].present = FALSE]
    /\ edits' = edits + 1
    /\ cleanRuns' = 0
    /\ lastEnd' = "edited"
    /\ UNCHANGED <<loads, metaFile, store, pc, current_metadata, queue, batch_idx, unreadable,
                   faults, sweeps, didOp, trouble, oldFile, failedDocs, removedDocs,
                   crashedDocs>>
    /\ UNCHANGED <<cvars, rest>>

\* ---- the sweep ----

\* lines 197-208: a process starts and its constructor runs the sweep
UpdateDatabaseIfNeeded(bad, rd) ==
    /\ pc = "idle" /\ sweeps < MaxSweeps
    /\ bad \subseteq { Considered[i] : i \in 1 .. Len(Considered) }
    /\ LET found == FindNewOrUpdatedPdfs(bad, ReadPdfMetadata(rd[1]))
           failed == Cardinality(bad) + Cardinality({ i \in 1 .. 2 : ~rd[i] })
       IN  /\ found = <<>> => rd[2]
           \* a failed read of a file that reads as {} anyway is no different case
           /\ LoadPdfMetadata = EmptyMap => rd = <<TRUE, TRUE>>
           /\ faults + failed <= MaxFaults
           /\ faults' = faults + failed
           /\ trouble' = (failed > 0)
           /\ IF found = <<>>
              THEN SweepEnds(IF failed = 0 THEN "clean" ELSE "trouble")
              ELSE /\ current_metadata' = ReadPdfMetadata(rd[2])
                   /\ queue' = found
                   /\ batch_idx' = 0
                   /\ pc' = DocEntry(ReadPdfMetadata(rd[2]), found)
                   /\ UNCHANGED <<cleanRuns, lastEnd, failedDocs, removedDocs>>
    /\ sweeps' = sweeps + 1
    /\ unreadable' = bad
    /\ loads' = rd
    /\ didOp' = FALSE
    /\ UNCHANGED <<file, metaFile, store, edits, oldFile, crashedDocs>>
    /\ UNCHANGED <<cvars, rest>>

\* lines 151-195: _remove_old_chunks for the current document; every exception
\* in it is logged and swallowed
RemoveOldChunks(ok) ==
    /\ pc = "remove"
    /\ IF ok
       THEN /\ store' = store \ ChunksOf(Head(queue))
            /\ didOp' = (didOp \/ ChunksOf(Head(queue)) # {})
            /\ UNCHANGED faults
       ELSE /\ ChunksOf(Head(queue)) # {}
            /\ faults < MaxFaults
            /\ faults' = faults + 1
            /\ UNCHANGED <<store, didOp>>
    /\ pc' = "process"
    /\ removedDocs' = removedDocs \cup {Head(queue)}
    /\ UNCHANGED <<loads, file, metaFile, current_metadata, queue, batch_idx, unreadable,
                   edits, sweeps, trouble, cleanRuns, lastEnd, oldFile, failedDocs,
                   crashedDocs>>
    /\ UNCHANGED <<cvars, rest>>

\* lines 236-306 up to the chunk list, then lines 223-230: the document raises
\* (caught at line 228), or is skipped and returns, or goes on to its batches
ProcessSinglePdf(raises) ==
    /\ pc = "process"
    /\ LET d == Head(queue)
       IN  IF raises
           THEN /\ faults < MaxFaults
                /\ faults' = faults + 1
                /\ trouble' = TRUE
                /\ failedDocs' = failedDocs \cup {d}
                /\ NextDocument(current_metadata)
           ELSE /\ UNCHANGED <<faults, trouble, failedDocs>>
                /\ IF file[d].size > MaxFileMb \/ DocChunks(file[d].size) = 0
                   THEN NextDocument(Commit(current_metadata, d))
                   ELSE /\ pc' = "batch"
                        /\ batch_idx' = 0
                        /\ UNCHANGED <<current_metadata, queue>>
    /\ UNCHANGED <<loads, file, metaFile, store, unreadable, edits, sweeps, didOp, cleanRuns,
                   lastEnd, oldFile, removedDocs, crashedDocs>>
    /\ UNCHANGED <<cvars, rest>>

\* line 291: chunk_text_with_overlap does not return (its loop has no normal
\* exit; see ChunkSpec); the sweep stays in the call, holding processing_lock,
\* until the process is killed
ChunkerHangs ==
    /\ pc = "process"
    /\ file[Head(queue)].size <= MaxFileMb
    /\ DocChunks(file[Head(queue)].size) > 0
    /\ pc' = "hung"
    /\ UNCHANGED <<loads, file, metaFile, store, current_metadata, queue, batch_idx,
                   unreadable, edits, faults, sweeps, didOp, trouble, cleanRuns,
                   lastEnd, oldFile, failedDocs, removedDocs, crashedDocs>>
    /\ UNCHANGED <<cvars, rest>>

\* lines 313-370: one batch is embedded and added, or its exception is logged
\* and the loop continues; after the last batch the document is committed
ProcessBatch(ok) ==
    /\ pc = "batch"
    /\ LET d == Head(queue)
       IN  /\ IF ok
              THEN /\ store' = store \cup BatchRecords(d, batch_idx)
                   /\ didOp' = TRUE
                   /\ UNCHANGED <<faults, failedDocs>>
              ELSE /\ faults < MaxFaults
                   /\ faults' = faults + 1
                   /\ failedDocs' = failedDocs \cup {d}
                   /\ UNCHANGED <<store, didOp>>
           /\ IF batch_idx + BatchSize >= DocChunks(file[d].size)
              THEN NextDocument(Commit(current_metadata, d))
              ELSE /\ batch_idx' = batch_idx + BatchSize
                   /\ UNCHANGED <<pc, current_metadata, queue>>
    /\ UNCHANGED <<loads, file, metaFile, unreadable, edits, sweeps, trouble, cleanRuns,
                   lastEnd, oldFile, removedDocs, crashedDocs>>
    /\ UNCHANGED <<cvars, rest>>

\* line 99: open(self.metadata_file, 'w') truncates the file, or raises
SaveOpen(ok) ==
    /\ pc = "save"
    /\ IF ok
       THEN /\ metaFile' = [ok |-> FALSE, map |-> EmptyMap]
            /\ oldFile' = metaFile
            /\ pc' = "write"
            /\ UNCHANGED <<current_metadata, queue, batch_idx, faults, trouble, cleanRuns,
                           lastEnd, failedDocs, removedDocs>>
       ELSE /\ faults < MaxFaults
            /\ faults' = faults + 1
            /\ trouble' = TRUE
            /\ SweepEnds("trouble")
            /\ UNCHANGED <<metaFile, oldFile>>
    /\ UNCHANGED <<loads, file, store, unreadable, edits, sweeps, didOp, crashedDocs>>
    /\ UNCHANGED <<cvars, rest>>

\* line 100: json.dump writes the whole map, or raises part-way
SaveWrite(ok) ==
    /\ pc = "write"
    /\ IF ok
       THEN /\ metaFile' = [ok |-> TRUE, map |-> current_metadata]
            /\ crashedDocs' = crashedDocs \ DOMAIN current_metadata
            /\ SweepEnds(IF trouble THEN "trouble" ELSE "clean")
            /\ UNCHANGED <<faults, trouble>>
       ELSE /\ faults < MaxFaults
            /\ faults' = faults + 1
            /\ trouble' = TRUE
            /\ SweepEnds("trouble")
            /\ UNCHANGED <<metaFile, crashedDocs>>
    /\ UNCHANGED <<loads, file, store, unreadable, edits, sweeps, didOp, oldFile>>
    /\ UNCHANGED <<cvars, rest>>

\* the documents the running sweep has worked on whose fingerprint is not on disk
InFlight ==
    { d \in DOMAIN current_metadata :
        d \notin DOMAIN LoadPdfMetadata \/ LoadPdfMetadata[d] # current_metadata[d] }
      \cup (IF pc \in {"remove", "process", "hung", "batch"} THEN {Head(queue)} ELSE {})

\* the process dies during a sweep; the files and the store stay as they are
Crash ==
    /\ pc # "idle"
    /\ faults < MaxFaults
    /\ faults' = faults + 1
    /\ trouble' = TRUE
    /\ crashedDocs' = crashedDocs \cup InFlight
    /\ SweepEnds("crashed")
    /\ UNCHANGED <<loads, file, metaFile, store, unreadable, edits, sweeps, didOp, oldFile>>
    /\ UNCHANGED <<cvars, rest>>

Next ==
    \/ \E d \in Docs : Touch(d)
    \/ \E d \in Docs, sz \in Sizes : Rewrite(d, sz)
    \/ \E d \in Docs : Remove(d)
    \/ \E bad \in {{}} \cup {{d} : d \in Docs}, rd \in BOOLEAN \X BOOLEAN :
          UpdateDatabaseIfNeeded(bad, rd)
    \/ \E ok \in BOOLEAN : RemoveOldChunks(ok)
    \/ \E raises \in BOOLEAN : ProcessSinglePdf(raises)
    \/ ChunkerHangs
    \/ \E ok \in BOOLEAN : ProcessBatch(ok)
    \/ \E ok \in BOOLEAN : SaveOpen(ok)
    \/ \E ok \in BOOLEAN : SaveWrite(ok)
    \/ Crash

Spec == Init /\ [][Next]_vars

-----------------------------------------------------------------------------
(* Claims about chunk_text_with_overlap (ChunkSpec, FairChunkSpec) *)

\* the positions of the text that lie in a window the loop has visited
CoveredPositions ==
    { p \in 0 .. (Len(text) - 1) :
        \E w \in windows : LET sl == Slice(text, w[1], w[2]) IN sl[1] <= p /\ p < sl[2] }

\* C1: for every text and every 0 < overlap < chunk_size the call terminates:
\* it eventually returns its list of chunks.
C1_Terminates == <>(cpc = "done")

\* C2: consecutive windows leave no gap (the next start is never beyond the
\* end of the window just visited), and when a call that entered the loop
\* returns, every position of the text lies in a window the loop visited.
C2_WindowsCoverText ==
    /\ (cpc = "advance" => NextStart(end, overlap) <= end)
    /\ (cpc = "done" /\ cexit # "early" => CoveredPositions = 0 .. (Len(text) - 1))

-----------------------------------------------------------------------------
(* Claims about the ingestion sweep (Spec) *)

\* the documents in the directory
Present == { d \in Docs : file[d].present }

\* the documents a sequence holds
Members(q) == { q[i] : i \in 1 .. Len(q) }

\* the fingerprint on disk differs from the file: no entry, other size or other time
FingerprintDiffers(d) ==
    \/ ~metaFile.ok
    \/ d \notin DOMAIN metaFile.map
    \/ metaFile.map[d].size # file[d].size
    \/ metaFile.map[d].modified # file[d].modified

\* a step that starts a sweep; queue' is what _find_new_or_updated_pdfs returned
SweepStarts == sweeps' = sweeps + 1

\* C3 as claimed: the sweep reports a document of the directory as changed
\* exactly when it has no stored fingerprint or its size or its modification
\* time differs from the stored one.
C3_ChangedIffFingerprintDiffers ==
    [][SweepStarts =>
         \A d \in Present : d \in Members(queue') <=> FingerprintDiffers(d)]_vars

\* C3 amended: the same holds for the documents the sweep looks at, the first
\* max_pdfs_per_batch of the listing whose stat() succeeds; no other document
\* is reported. A sweep that fails to read the fingerprint file compares with
\* the empty map and reports every document it looks at.
C3_ChangedAmongConsidered ==
    [][SweepStarts =>
         \A d \in Docs :
            d \in Members(queue') <=>
               /\ d \in Members(Considered)
               /\ d \notin unreadable'
               /\ ~loads'[1] \/ FingerprintDiffers(d)]_vars

\* C3 witness: a touched document (stored size equal, time different) is in
\* the list of changed documents of a running sweep
C3_TouchedDocumentReported ==
    /\ pc # "idle"
    /\ \E d \in Members(queue) :
          /\ metaFile.ok /\ d \in DOMAIN metaFile.map
          /\ metaFile.map[d].size = file[d].size
          /\ metaFile.map[d].modified # file[d].modified

\* C4: a document beyond the per-sweep cap is deferred, not dropped: with no
\* failure so far and no change of the directory, no sweep finds nothing to do
\* while a document of the directory has no fingerprint on disk (such a sweep
\* changes nothing, so every later sweep would find nothing again).
C4_NoDocumentDropped ==
    [][SweepStarts /\ pc' = "idle" /\ faults' = 0 /\ edits = 0 =>
         \A d \in Present : d \in DOMAIN LoadPdfMetadata]_vars

NewChunkIds(d) ==
    IF file[d].size > MaxFileMb THEN {} ELSE 0 .. (DocChunks(file[d].size) - 1)

\* the documents whose fingerprint the running sweep has created or updated
Committed ==
    { d \in DOMAIN current_metadata :
        d \notin DOMAIN LoadPdfMetadata \/ LoadPdfMetadata[d] # current_metadata[d] }

\* the documents the running sweep has ingested: chunks to add, no batch
\* failed, fingerprint created or updated
Ingested == { d \in Committed \ failedDocs : NewChunkIds(d) # {} }

\* C6: once a sweep has ingested a changed document, the ids in the store with
\* the document's source name are exactly the ids of its new chunks.
C6_ReplaceLeavesNewChunkSet ==
    pc = "save" =>
       \A d \in Ingested : { r.chunk_id : r \in ChunksOf(d) } = NewChunkIds(d)

\* every chunk of the file d as it is now is in the store st
AllChunksIn(st, d) ==
    \A i \in NewChunkIds(d) :
       [source |-> d, chunk_id |-> i, version |-> file[d].modified] \in st

\* C7: the sweep creates or updates a fingerprint only for a document that was
\* not skipped (oversized, no text, no chunks) and all of whose chunks are in
\* the store by then.
C7_FingerprintOnlyAfterChunks ==
    [][pc # "idle" =>
         \A d \in DOMAIN current_metadata' :
            (d \notin DOMAIN current_metadata \/ current_metadata'[d] # current_metadata[d])
               => /\ file[d].size <= MaxFileMb
                  /\ DocChunks(file[d].size) > 0
                  /\ AllChunksIn(store', d)]_vars

\* C8: when a step of a document fails, the fingerprint of that document stays
\* what it was before the sweep, and the sweep does not stop: the documents
\* after it are still to be processed.
C8_FailureIsolation ==
    /\ [](pc \in {"remove", "process", "batch", "save"} =>
            \A d \in failedDocs : d \notin Committed)
    /\ [][failedDocs' # failedDocs /\ failedDocs' # {} =>
            queue' \in {queue, Tail(queue)} /\ pc' # "idle"]_vars

\* C9: after a crash that interrupted a document before its fingerprint was
\* saved, the next sweep reprocesses the document from scratch: when it starts
\* to add the document's chunks, the chunks the interrupted run left in the
\* store are gone, and after the last batch the store holds exactly the ids of
\* the file's chunks.
C9_CrashRecovery ==
    \A d \in crashedDocs :
       /\ (pc = "batch" /\ batch_idx = 0 /\ Head(queue) = d => ChunksOf(d) = {})
       /\ (pc = "save" /\ d \in Ingested
             => { r.chunk_id : r \in ChunksOf(d) } = NewChunkIds(d))

\* what _load_pdf_metadata makes of the fingerprint file f
Readable(f) == IF f.ok THEN f.map ELSE EmptyMap

\* C10: after a crash inside _save_pdf_metadata the fingerprint file reads as
\* the complete old map or as the complete new map.
C10_AtomicSave ==
    [][pc = "write" /\ pc' = "idle" /\ lastEnd' = "crashed" =>
         Readable(metaFile') \in {Readable(oldFile), current_metadata}]_vars

-----------------------------------------------------------------------------
(* Threads and locks: _update_database_if_needed called by the threads of   *)
(* a process on one SimplePDFFactChecker (LockSpec), and the API process of *)
(* factcheck_api.py (ApiSpec). The sweep is followed here for one document  *)
(* that has a fingerprint and two batches of chunks.                        *)

\* sweeps and requests started in one run
MaxCalls == 3

\* the parts of the program that are not threads of the process
ThreadsParked == ChunkParked /\ SweepParked /\ QueryParked /\ StatsParked /\ MemoryParked /\ PagesParked

\* a lock that lets every thread in
CanAcquireAlways(lock) == TRUE

\* threading.Lock: acquire succeeds when nobody holds the lock
CanAcquire(lock) == lock = "free"

\* where a thread is inside the body of `with self.processing_lock:`
InSweepBody == {"find", "remove", "insert", "save", "hung"}

Goto(t, where) == tpc' = [tpc EXCEPT ![t] = where]

\* line 81: a thread calls _update_database_if_needed
SweepCall(t) ==
    /\ tpc[t] \in {"idle", "returned"}
    /\ calls < MaxCalls
    /\ calls' = calls + 1
    /\ Goto(t, "acquire")
    /\ UNCHANGED <<processing_lock, factchecker_lock, factchecker, phase, answers>>
    /\ UNCHANGED <<cvars, svars, qvars, tvars, mvars, pvars>>

\* line 199: `with self.processing_lock:` blocks until the lock is free
SweepAcquire(t) ==
    /\ tpc[t] = "acquire"
    /\ CanAcquire(processing_lock)
    /\ processing_lock' = t
    /\ Goto(t, "find")
    /\ UNCHANGED <<factchecker_lock, factchecker, phase, calls, answers>>
    /\ UNCHANGED <<cvars, svars, qvars, tvars, mvars, pvars>>

\* lines 200-208: nothing changed (return at line 204), or an exception leaves
\* the with block, or the loop starts with the document; the first two release
\* the lock
SweepFind(t, outcome) ==
    /\ tpc[t] = "find"
    /\ IF outcome = "changed"
       THEN /\ Goto(t, "remove")
            /\ UNCHANGED processing_lock
       ELSE /\ Goto(t, "returned")
            /\ processing_lock' = "free"
    /\ UNCHANGED <<factchecker_lock, factchecker, phase, calls, answers>>
    /\ UNCHANGED <<cvars, svars, qvars, tvars, mvars, pvars>>

\* lines 216-217: the old chunks of the document are deleted
SweepRemove(t) ==
    /\ tpc[t] = "remove"
    /\ phase' = "deleted"
    /\ Goto(t, "insert")
    /\ UNCHANGED <<processing_lock, factchecker_lock, factchecker, calls, answers>>
    /\ UNCHANGED <<cvars, svars, qvars, tvars, mvars, pvars>>

\* line 220: one batch of the new chunks is added; after the second the loop
\* of line 210 is over
SweepInsert(t) ==
    /\ tpc[t] = "insert"
    /\ phase \in {"deleted", "partial"}
    /\ phase' = IF phase = "deleted" THEN "partial" ELSE "new"
    /\ Goto(t, IF phase = "deleted" THEN "insert" ELSE "save")
    /\ UNCHANGED <<processing_lock, factchecker_lock, factchecker, calls, answers>>
    /\ UNCHANGED <<cvars, svars, qvars, tvars, mvars, pvars>>

\* line 291: chunk_text_with_overlap does not return; the lock stays held
SweepHangs(t) ==
    /\ tpc[t] = "insert"
    /\ phase = "deleted"
    /\ Goto(t, "hung")
    /\ UNCHANGED <<processing_lock, factchecker_lock, factchecker, phase, calls, answers>>
    /\ UNCHANGED <<cvars, svars, qvars, tvars, mvars, pvars>>

\* lines 233-234: the map is saved, the with block ends and releases the lock
SweepSave(t) ==
    /\ tpc[t] = "save"
    /\ processing_lock' = "free"
    /\ Goto(t, "returned")
    /\ UNCHANGED <<factchecker_lock, factchecker, phase, calls, answers>>
    /\ UNCHANGED <<cvars, svars, qvars, tvars, mvars, pvars>>

\* the steps of a sweep once it is called
SweepSteps(t) ==
    \/ SweepAcquire(t)
    \/ \E outcome \in {"nothing", "raises", "changed"} : SweepFind(t, outcome)
    \/ SweepRemove(t)
    \/ SweepInsert(t)
    \/ SweepHangs(t)
    \/ SweepSave(t)

LockInit ==
    /\ ThreadsParked
    /\ tpc = [t \in Threads |-> "idle"]
    /\ processing_lock = "free"
    /\ factchecker_lock = "free"
    /\ factchecker = "ready"
    /\ phase = "old"
    /\ calls = 0
    /\ answers = {}

LockNext == \E t \in Threads : SweepCall(t) \/ SweepSteps(t)

LockSpec == LockInit /\ [][LockNext]_vars

(* ---- the API process of factcheck_api.py ---- *)

\* a handler that answers without looking at the global
CheckerAvailableAlways(fc) == TRUE

\* line 39: `if factchecker is None` answers 503
CheckerAvailable(fc) == fc # "None"

\* a statistics endpoint that answers without looking at the global
StatsAvailableAlways(fc) == TRUE

\* line 98: the same test in the statistics endpoint
StatsAvailable(fc) == fc # "None"

\* the bodies a request carries: a message, JSON without a message field, a
\* blank message, a message that is not a string, no JSON body at all
Bodies == {"ok", "missing", "blank", "nonstring", "absent"}

\* line 45: request.get_json() returns the parsed body; for a body that is not
\* JSON it returns None or raises, depending on the body and on the framework
GetJson(body) == IF body = "absent" THEN {"none", "raises"} ELSE {"parsed"}

\* lines 22-32 with the constructor up to line 78: the components are built,
\* or one of them raises and the global stays None
Construct(ok) ==
    /\ tpc["init"] = "start"
    /\ Goto("init", IF ok THEN "acquire" ELSE "failed")
    /\ UNCHANGED <<processing_lock, factchecker_lock, factchecker, phase, calls, answers>>
    /\ UNCHANGED <<cvars, svars, qvars, tvars, mvars, pvars>>

\* lines 24-28: the constructor has returned, the global is assigned
Publish ==
    /\ tpc["init"] = "returned"
    /\ factchecker' = "ready"
    /\ Goto("init", "done")
    /\ UNCHANGED <<processing_lock, factchecker_lock, phase, calls, answers>>
    /\ UNCHANGED <<cvars, svars, qvars, tvars, mvars, pvars>>

\* lines 36-58 and 86-92: a request for /api/factcheck arrives and is answered
\* at once (503, 400, or 500 for an exception of line 45 or 52), or goes on to
\* the lock; an answer is <<status, store phase read, body>>
Request(h, body, json) ==
    /\ tpc[h] = "idle"
    /\ calls < MaxCalls
    /\ json \in GetJson(body)
    /\ calls' = calls + 1
    /\ IF ~CheckerAvailable(factchecker)
       THEN answers' = answers \cup {<<503, "none", body>>} /\ UNCHANGED tpc
       ELSE IF json = "raises"
       THEN answers' = answers \cup {<<500, "none", body>>} /\ UNCHANGED tpc
       ELSE IF json = "none" \/ body \in {"missing", "blank"}
       THEN answers' = answers \cup {<<400, "none", body>>} /\ UNCHANGED tpc
       ELSE IF body = "nonstring"
       THEN answers' = answers \cup {<<500, "none", body>>} /\ UNCHANGED tpc
       ELSE Goto(h, "acquire") /\ UNCHANGED answers
    /\ UNCHANGED <<processing_lock, factchecker_lock, factchecker, phase>>
    /\ UNCHANGED <<cvars, svars, qvars, tvars, mvars, pvars>>

\* line 60: `with factchecker_lock:`
HandlerAcquire(h) ==
    /\ tpc[h] = "acquire"
    /\ CanAcquire(factchecker_lock)
    /\ factchecker_lock' = h
    /\ Goto(h, "query")
    /\ UNCHANGED <<processing_lock, factchecker, phase, calls, answers>>
    /\ UNCHANGED <<cvars, svars, qvars, tvars, mvars, pvars>>

\* lines 63-84: simple_fact_check queries the store, the response is built and
\* returned, the with block releases the lock
HandlerQuery(h) ==
    /\ tpc[h] = "query"
    /\ answers' = answers \cup {<<200, phase, "ok">>}
    /\ factchecker_lock' = "free"
    /\ Goto(h, "idle")
    /\ UNCHANGED <<processing_lock, factchecker, phase, calls>>
    /\ UNCHANGED <<cvars, svars, qvars, tvars, mvars, pvars>>

\* lines 96-102: a request for /api/stats arrives and is answered 503 at
\* once, or goes on to the lock
StatsRequest(h) ==
    /\ tpc[h] = "idle"
    /\ calls < MaxCalls
    /\ calls' = calls + 1
    /\ IF ~StatsAvailable(factchecker)
       THEN answers' = answers \cup {<<503, "none", "stats">>} /\ UNCHANGED tpc
       ELSE Goto(h, "acquire_stats") /\ UNCHANGED answers
    /\ UNCHANGED <<processing_lock, factchecker_lock, factchecker, phase>>
    /\ UNCHANGED <<cvars, svars, qvars, tvars, mvars, pvars>>

\* line 104: `with factchecker_lock:`
StatsAcquire(h) ==
    /\ tpc[h] = "acquire_stats"
    /\ CanAcquire(factchecker_lock)
    /\ factchecker_lock' = h
    /\ Goto(h, "stats")
    /\ UNCHANGED <<processing_lock, factchecker, phase, calls, answers>>
    /\ UNCHANGED <<cvars, svars, qvars, tvars, mvars, pvars>>

\* lines 105-109: get_database_stats pages through the store, the response
\* is returned, the with block releases the lock
StatsAnswer(h) ==
    /\ tpc[h] = "stats"
    /\ answers' = answers \cup {<<200, phase, "stats">>}
    /\ factchecker_lock' = "free"
    /\ Goto(h, "idle")
    /\ UNCHANGED <<processing_lock, factchecker, phase, calls>>
    /\ UNCHANGED <<cvars, svars, qvars, tvars, mvars, pvars>>

Handlers == Threads \ {"init"}

ApiInit ==
    /\ ThreadsParked
    /\ tpc = [t \in Threads |-> IF t = "init" THEN "start" ELSE "idle"]
    /\ processing_lock = "free"
    /\ factchecker_lock = "free"
    /\ factchecker = "None"
    /\ phase = "old"
    /\ calls = 0
    /\ answers = {}

ApiNext ==
    \/ \E ok \in BOOLEAN : Construct(ok)
    \/ SweepSteps("init")
    \/ Publish
    \/ \E h \in Handlers, body \in Bodies, json \in {"parsed", "none", "raises"} : Request(h, body, json)
    \/ \E h \in Handlers : HandlerAcquire(h)
    \/ \E h \in Handlers : HandlerQuery(h)
    \/ \E h \in Handlers : StatsRequest(h)
    \/ \E h \in Handlers : StatsAcquire(h)
    \/ \E h \in Handlers : StatsAnswer(h)

ApiSpec == ApiInit /\ [][ApiNext]_vars

\* the threads inside the body of a sweep
Sweeping == { t \in Threads : tpc[t] \in InSweepBody }

\* C11: at most one thread is inside the body of _update_database_if_needed at
\* any time; the thread inside holds processing_lock, and the lock is free
\* whenever no thread is inside: every way out of the body (nothing changed,
\* completion, exception) has released it.
C11_SweepMutualExclusion ==
    /\ Cardinality(Sweeping) <= 1
    /\ \A t \in Sweeping : processing_lock = t
    /\ (Sweeping = {} => processing_lock = "free")

\* C11 witness: one thread is inside a sweep while a second waits for the lock
\* and a third has already left its sweep
C11_ContendedSweep ==
    \E t, u, v \in Threads :
       /\ tpc[t] \in InSweepBody
       /\ tpc[u] = "acquire"
       /\ tpc[v] = "returned"

\* a sweep is between the removal of a document's old chunks and the
\* insertion of the last of its new ones
MidReplacement ==
    /\ phase \in {"deleted", "partial"}
    /\ \E t \in Threads : tpc[t] \in {"insert", "hung"}

\* the handlers that are inside simple_fact_check
Querying == { h \in Handlers : tpc[h] = "query" }

\* C12 as claimed: a query runs behind the lock the sweep runs behind, and so
\* never reads the store while a document is mid-replacement.
C12_QueryBehindSweepLock ==
    \A h \in Querying : processing_lock = h /\ ~MidReplacement

\* C12 amended: queries exclude one another behind factchecker_lock (which is
\* not processing_lock), and no query reads the store while a document is
\* mid-replacement, because the sweep is over before the checker is published.
C12_QueryNeverMidReplacement ==
    /\ Cardinality(Querying) <= 1
    /\ \A h \in Querying : factchecker_lock = h /\ ~MidReplacement
    /\ \A a \in answers : a[1] = 200 => a[2] \in {"old", "new"}

\* C12 witness: a query is running on a store in which the sweep has replaced
\* the document, while the other handler waits for the lock
C12_QueryAfterReplacement ==
    /\ phase = "new"
    /\ \E h, g \in Handlers : tpc[h] = "query" /\ tpc[g] = "acquire"

(***************************************************************************)
(* simple_fact_check: one call on one message.  Confidences, distances and *)
(* the threshold are counted in tenths (6 is 0.6, 10 is 1.0).              *)
(***************************************************************************)

One == 10
Floor == 6
MinSentenceLen == 10
MinClaimLen == 20
MaxSentences == 5

IsTerminator(c) == c \in {".", "!", "?"}

\* the offsets at which a fragment of re.split(r'[.!?]+', t) starts: 0, and
\* the offset after every run of terminators
FragmentStarts(t) ==
    {0} \cup { s \in 1 .. Len(t) :
                 /\ IsTerminator(t[s])
                 /\ (s = Len(t) \/ ~IsTerminator(t[s + 1])) }

\* a fragment runs up to the next terminator or the end of the message
FragmentEnd(t, s) ==
    LET ends == { e \in s .. Len(t) : e = Len(t) \/ IsTerminator(t[e + 1]) }
    IN  CHOOSE e \in ends : \A f \in ends : e <= f

RECURSIVE Ascending(_)
Ascending(S) ==
    IF S = {} THEN <<>>
    ELSE LET m == CHOOSE x \in S : \A y \in S : x <= y
         IN  <<m>> \o Ascending(S \ {m})

\* re.split(r'[.!?]+', message), each fragment as a slice of the message
ReSplit(t) ==
    LET starts == Ascending(FragmentStarts(t))
    IN  [i \in 1 .. Len(starts) |-> <<starts[i], FragmentEnd(t, starts[i])>>]

RECURSIVE StripAll(_, _)
StripAll(t, frags) ==
    IF frags = <<>> THEN <<>>
    ELSE <<Strip(t, Head(frags))>> \o StripAll(t, Tail(frags))

LongEnough(ch) == ChunkLen(ch) > MinSentenceLen

\* a filter that keeps only the fragments long enough to be claims
KeepClaimsOnly(t) ==
    SelectSeq(StripAll(t, ReSplit(t)), LAMBDA ch : ChunkLen(ch) >= MinClaimLen)

\* [s.strip() for s in sentences if len(s.strip()) > 10]
KeepSentences(t) == SelectSeq(StripAll(t, ReSplit(t)), LongEnough)

\* no cap: every sentence is kept
AllSentences(ss) == ss

\* sentences[:5]
FirstSentences(ss) == SubSeq(ss, 1, Min(Len(ss), MaxSentences))

ExtractSentences(t) == FirstSentences(KeepSentences(t))

\* the loop evaluates a sentence unless len(sentence) < 20
EvaluatedAlways(ch) == TRUE

Evaluated(ch) == ~(ChunkLen(ch) < MinClaimLen)

\* what the store can answer to one query: the embedding or the query raises,
\* no result, or a nearest chunk at some distance with its document's metadata
Distances == {0, 4, 6, One}
Metadatas == { [title |-> "T1", source |-> "A.pdf"], [title |-> "T1", source |-> "B.pdf"] }
NoHit == [distance |-> 0, metadata |-> [title |-> "", source |-> ""]]
Hits == [distance : Distances, metadata : Metadatas]
AllOutcomes ==
    { [kind |-> "raises", hit |-> NoHit], [kind |-> "empty", hit |-> NoHit] }
        \cup { [kind |-> "hit", hit |-> h] : h \in Hits }

AnyOutcome(empty) == AllOutcomes

\* an empty collection has no chunk to return
PossibleOutcomes(empty) ==
    IF empty THEN { o \in AllOutcomes : o.kind # "hit" } ELSE AllOutcomes

\* retrieve_relevant_context: the chunks found, nearest first; an exception
\* is logged and the result is the empty list
RetrieveRelevantContext(outcome) ==
    IF outcome.kind = "hit" THEN <<outcome.hit>> ELSE <<>>

SupportsAtThreshold(found, threshold) ==
    found # <<>> /\ found[1].distance <= threshold

\* relevant_chunks and relevant_chunks[0]['distance'] < similarity_threshold
Supports(found, threshold) ==
    found # <<>> /\ found[1].distance < threshold

ConfidenceAbove(distance) == One + distance

\* confidence = 1 - best_match['distance']
Confidence(distance) == One - distance

KeepConfidence(confidence) == confidence

\* min(results['confidence'], 0.6)
CapAtFloor(confidence) == Min(confidence, Floor)

AppendSource(sources, info) == Append(sources, info)

\* if source_info not in results['sources']: results['sources'].append(...)
AddSource(sources, info) ==
    IF \E i \in 1 .. Len(sources) : sources[i] = info THEN sources
    ELSE Append(sources, info)

\* a verdict that starts out as unsupported
DoubtfulResults ==
    [is_supported |-> FALSE, confidence |-> Floor, claim_results |-> <<>>,
     sources |-> <<>>, error |-> FALSE]

EmptyResults ==
    [is_supported |-> TRUE, confidence |-> One, claim_results |-> <<>>,
     sources |-> <<>>, error |-> FALSE]

ErrorResults ==
    [is_supported |-> FALSE, confidence |-> 0, claim_results |-> <<>>,
     sources |-> <<>>, error |-> TRUE]

\* the claim result of a supported claim; source is a list of at most one
\* metadata, empty for None
SupportedClaim(sentence, best_match) ==
    [claim |-> sentence, confidence |-> Confidence(best_match.distance),
     source |-> <<best_match.metadata>>]

UnsupportedClaim(sentence) ==
    [claim |-> sentence, confidence |-> 0, source |-> <<>>]

\* the messages tried: fragments of <<leading spaces, letters, terminators>>
Letters(n) == [i \in 1 .. n |-> IF i = 5 /\ n > 6 THEN " " ELSE "a"]
Fragment(f) ==
    [i \in 1 .. f[1] |-> " "] \o Letters(f[2])
        \o [i \in 1 .. f[3] |-> IF i = 1 THEN "." ELSE IF i = 2 THEN "!" ELSE "?"]

RECURSIVE MkMessage(_)
MkMessage(shape) ==
    IF shape = <<>> THEN <<>>
    ELSE Fragment(Head(shape)) \o MkMessage(Tail(shape))

Shapes ==
    { <<>>,
      << <<0, 3, 1>> >>,
      << <<0, 25, 1>>, <<1, 5, 1>> >>,
      << <<0, 20, 0>> >>,
      << <<2, 19, 1>>, <<0, 0, 2>> >>,
      << <<1, 10, 2>>, <<1, 11, 1>>, <<1, 20, 3>> >>,
      << <<0, 21, 1>>, <<1, 22, 2>>, <<1, 23, 1>> >>,
      << <<0, 11, 1>>, <<1, 20, 1>>, <<1, 12, 1>>, <<1, 21, 1>>, <<1, 13, 1>>, <<1, 22, 1>> >>,
      << <<0, 11, 1>>, <<1, 12, 1>>, <<1, 13, 1>>, <<1, 14, 1>>, <<1, 15, 1>>, <<1, 26, 1>> >> }

\* messages with more claims than the cap; they are checked against an empty
\* collection only
LongShapes ==
    { << <<0, 20, 1>>, <<1, 21, 1>>, <<1, 22, 1>>, <<1, 23, 1>>, <<1, 24, 1>>, <<1, 25, 1>> >> }

Thresholds == {0, Floor, One}

FactInit ==
    /\ ChunkParked /\ SweepParked /\ ApiParked /\ StatsParked /\ MemoryParked /\ PagesParked
    /\ \/ /\ \E shape \in Shapes : message = MkMessage(shape)
          /\ indexEmpty \in BOOLEAN
       \/ /\ \E shape \in LongShapes : message = MkMessage(shape)
          /\ indexEmpty = TRUE
    /\ msgIsStr \in BOOLEAN
    /\ similarity_threshold \in Thresholds
    /\ sentences = <<>> /\ si = 1
    /\ results = EmptyResults
    /\ qpc = "entry" /\ retrievals = <<>>
    /\ status = "none"

\* lines 475-488: a message that is not a string fails re.split, and the outer
\* handler returns the error verdict
FactEnter ==
    /\ qpc = "entry"
    /\ IF msgIsStr
       THEN /\ sentences' = ExtractSentences(message)
            /\ results' = EmptyResults
            /\ qpc' = "loop"
       ELSE /\ results' = ErrorResults
            /\ qpc' = "done"
            /\ UNCHANGED sentences
    /\ UNCHANGED <<status, message, msgIsStr, similarity_threshold, indexEmpty, si, retrievals>>
    /\ UNCHANGED <<cvars, svars, avars, tvars, mvars, pvars>>

\* lines 490-527: one turn of the loop
FactSentence(outcome) ==
    /\ qpc = "loop" /\ si <= Len(sentences)
    /\ outcome \in PossibleOutcomes(indexEmpty)
    /\ si' = si + 1
    /\ LET sentence == sentences[si]
           relevant_chunks == RetrieveRelevantContext(outcome)
       IN  IF ~Evaluated(sentence)
           THEN \* continue: nothing is retrieved, the outcome is not consulted
                /\ outcome.kind = "empty"
                /\ UNCHANGED <<results, retrievals>>
           ELSE /\ retrievals' = Append(retrievals, [claim |-> sentence, outcome |-> outcome])
                /\ IF Supports(relevant_chunks, similarity_threshold)
                   THEN results' =
                          [results EXCEPT
                             !.claim_results = Append(@, SupportedClaim(sentence, relevant_chunks[1])),
                             !.sources = AddSource(@, relevant_chunks[1].metadata)]
                   ELSE results' =
                          [results EXCEPT
                             !.is_supported = FALSE,
                             !.confidence = CapAtFloor(@),
                             !.claim_results = Append(@, UnsupportedClaim(sentence))]
    /\ UNCHANGED <<status, message, msgIsStr, similarity_threshold, indexEmpty, sentences, qpc>>
    /\ UNCHANGED <<cvars, svars, avars, tvars, mvars, pvars>>

\* line 529
FactReturn ==
    /\ qpc = "loop" /\ si > Len(sentences)
    /\ qpc' = "done"
    /\ UNCHANGED <<status, message, msgIsStr, similarity_threshold, indexEmpty, sentences, si, results, retrievals>>
    /\ UNCHANGED <<cvars, svars, avars, tvars, mvars, pvars>>

\* a status taken from is_supported alone
StatusFromSupport(res) == IF res.is_supported THEN "verified" ELSE "unverified"

\* factcheck_api.py lines 67-73 (confidence in tenths): the first assignment is
\* overwritten in every branch
Status(res) ==
    IF res.confidence > 7 THEN "verified"
    ELSE IF res.confidence > 3 THEN "partial"
    ELSE "unverified"

\* factcheck_api.py lines 63-84: the endpoint turns the verdict into its
\* response; only a str reaches simple_fact_check through it (line 53)
FactRespond ==
    /\ qpc = "done" /\ msgIsStr
    /\ status' = Status(results)
    /\ qpc' = "answered"
    /\ UNCHANGED <<message, msgIsStr, similarity_threshold, indexEmpty, sentences, si,
                   results, retrievals>>
    /\ UNCHANGED <<cvars, svars, avars, tvars, mvars, pvars>>

FactNext ==
    \/ FactEnter
    \/ \E outcome \in AllOutcomes : FactSentence(outcome)
    \/ FactReturn
    \/ FactRespond

FactSpec == FactInit /\ [][FactNext]_vars

\* the i-th claim result and the retrieval that produced it
Claims == results.claim_results
NearestBelowThreshold(i) ==
    /\ retrievals[i].outcome.kind = "hit"
    /\ retrievals[i].outcome.hit.distance < similarity_threshold

\* C13: an evaluated claim is supported exactly when its retrieval found
\* something and the nearest distance is strictly below the threshold; then
\* its confidence is 1 - distance and its source the nearest chunk's metadata;
\* otherwise its confidence is 0.0 and it has no source.
C13_ClaimVerdictRule ==
    /\ Len(Claims) = Len(retrievals)
    /\ \A i \in 1 .. Len(Claims) :
         /\ Claims[i].claim = retrievals[i].claim
         /\ IF NearestBelowThreshold(i)
            THEN /\ Claims[i].confidence = One - retrievals[i].outcome.hit.distance
                 /\ Claims[i].source = <<retrievals[i].outcome.hit.metadata>>
            ELSE /\ Claims[i].confidence = 0
                 /\ Claims[i].source = <<>>

\* a finished call with a supported claim and a claim whose nearest chunk lies
\* exactly at the threshold
C13_SupportedAndAtThreshold ==
    /\ qpc = "done"
    /\ \E i, j \in 1 .. Len(Claims) :
         /\ NearestBelowThreshold(i) /\ Claims[i].source # <<>>
         /\ retrievals[j].outcome.kind = "hit"
         /\ retrievals[j].outcome.hit.distance = similarity_threshold
         /\ Claims[j].source = <<>>

Unsupported(i) == Claims[i].source = <<>>

\* C14: once a claim has been found unsupported, wherever it stands among the
\* evaluated claims, the verdict is not supported and its confidence is at
\* most the floor, during the rest of the call and in the returned verdict.
C14_UnsupportedCapIsPermanent ==
    (\E i \in 1 .. Len(Claims) : Unsupported(i))
        => /\ results.is_supported = FALSE
           /\ results.confidence <= Floor

\* a returned verdict whose unsupported claim is followed by a supported one
C14_SupportedAfterUnsupported ==
    /\ qpc = "done"
    /\ \E i, j \in 1 .. Len(Claims) :
         i < j /\ Unsupported(i) /\ ~Unsupported(j) /\ Claims[j].confidence > Floor

\* C15: with distances and threshold in [0,1], every claim result's
\* confidence and the verdict's overall confidence lie in [0,1].
C15_ConfidenceInRange ==
    /\ results.confidence \in 0 .. One
    /\ \A i \in 1 .. Len(Claims) : Claims[i].confidence \in 0 .. One

\* a returned verdict with claims at both ends of the range and one inside
C15_ConfidencesAcrossRange ==
    /\ qpc = "done"
    /\ \E i, j, k \in 1 .. Len(Claims) :
         /\ Claims[i].confidence = One
         /\ Claims[j].confidence = 0
         /\ Claims[k].confidence \in 1 .. (One - 1)

\* the smallest confidence among the claim results
MinClaimConfidence ==
    CHOOSE c \in { Claims[i].confidence : i \in 1 .. Len(Claims) } :
        \A i \in 1 .. Len(Claims) : c <= Claims[i].confidence

\* C16: the returned overall confidence is the minimum of the claims'
\* confidences, held at or below the floor when a claim is unsupported; when
\* all claims are supported it equals the smallest claim confidence.
C16_OverallIsMinOfClaims ==
    (qpc = "done" /\ ~results.error /\ Claims # <<>>)
        => IF \E i \in 1 .. Len(Claims) : Unsupported(i)
           THEN results.confidence <= Floor
           ELSE results.confidence = MinClaimConfidence

\* the (title, source) pairs of the supported claims, in claim order
RECURSIVE CitedPairs(_)
CitedPairs(n) ==
    IF n = 0 THEN <<>>
    ELSE CitedPairs(n - 1) \o Claims[n].source

\* a list without its repetitions, first appearances kept in order
RECURSIVE FirstAppearances(_)
FirstAppearances(seq) ==
    IF seq = <<>> THEN <<>>
    ELSE LET front == FirstAppearances(SubSeq(seq, 1, Len(seq) - 1))
             last == seq[Len(seq)]
         IN  IF \E i \in 1 .. Len(front) : front[i] = last THEN front
             ELSE Append(front, last)

\* C17: the verdict's sources hold no (title, source) pair twice, hold exactly
\* the pairs of the supported claims' nearest chunks, and list them in order
\* of first appearance.
C17_SourcesDeduplicatedInOrder ==
    /\ \A i, j \in 1 .. Len(results.sources) :
         results.sources[i] = results.sources[j] => i = j
    /\ results.sources = FirstAppearances(CitedPairs(Len(Claims)))

\* a returned verdict where the first and third claims cite one document and
\* the second claim another
C17_SameDocumentCitedTwice ==
    /\ qpc = "done"
    /\ Len(Claims) = 3
    /\ \A i \in 1 .. 3 : ~Unsupported(i)
    /\ Claims[1].source = Claims[3].source
    /\ Claims[1].source # Claims[2].source
    /\ Len(results.sources) = 2

IsClaim(ch) == ChunkLen(ch) >= MinClaimLen

\* the trimmed fragments of the message, in message order
Fragments == StripAll(message, ReSplit(message))

\* the claims of the claim results, in order
ClaimsEvaluated == [i \in 1 .. Len(Claims) |-> Claims[i].claim]

\* C18 as claimed: every trimmed fragment of at least 20 characters yields
\* exactly one claim result, in message order, and no other fragment does.
C18_EveryLongFragmentIsAClaim ==
    (qpc = "done" /\ ~results.error)
        => ClaimsEvaluated = SelectSeq(Fragments, IsClaim)

\* C18 amended: the claim results are, in message order, the fragments of at
\* least 20 characters among the first five trimmed fragments longer than 10
\* characters; later fragments yield nothing.
C18_LongFragmentsAmongFirstFive ==
    (qpc = "done" /\ ~results.error)
        => LET candidates == SelectSeq(Fragments, LongEnough)
               firstFive == SubSeq(candidates, 1, Min(Len(candidates), 5))
           IN  ClaimsEvaluated = SelectSeq(firstFive, IsClaim)

\* a returned verdict for a message with six candidate fragments, three of
\* them long enough to be claims, the last of which is past the cap
C18_ClaimPastTheCap ==
    /\ qpc = "done" /\ ~results.error
    /\ Len(SelectSeq(Fragments, LongEnough)) = 6
    /\ Len(SelectSeq(Fragments, IsClaim)) = 3
    /\ Len(Claims) = 2

RetrievalFailed(i) == retrievals[i].outcome.kind = "raises"

\* C19: when the retrieval of a claim fails (the embedding or the store query
\* raises), the returned verdict carries the error indicator.
C19_RetrievalFailureSurfaces ==
    (qpc = "done" /\ \E i \in 1 .. Len(retrievals) : RetrievalFailed(i))
        => results.error

\* every retrieval found nothing and raised nothing past the retrieval
NothingRetrieved ==
    \A i \in 1 .. Len(retrievals) : RetrieveRelevantContext(retrievals[i].outcome) = <<>>

AllClaimsUnsupported ==
    \A i \in 1 .. Len(Claims) : Claims[i].confidence = 0 /\ Claims[i].source = <<>>

\* C20 as claimed: against an empty index every retrieval returns the empty
\* list, every evaluated claim is unsupported with confidence 0.0 and no
\* source, and the returned verdict has is_supported = false.
C20_EmptyIndexNeverSupported ==
    (indexEmpty /\ qpc = "done")
        => /\ NothingRetrieved
           /\ AllClaimsUnsupported
           /\ results.is_supported = FALSE

\* C20 amended: against an empty index every retrieval returns the empty list
\* and every evaluated claim is unsupported with confidence 0.0 and no source;
\* the returned verdict has is_supported = false when at least one claim was
\* evaluated, and is the initial verdict (supported, confidence 1.0) when
\* none was.
C20_EmptyIndexUnsupportedClaims ==
    (indexEmpty /\ ~results.error)
        => /\ NothingRetrieved
           /\ AllClaimsUnsupported
           /\ Claims # <<>> => (results.is_supported = FALSE /\ results.confidence = Floor)
           /\ (qpc = "done" /\ Claims = <<>>)
                => (results.is_supported = TRUE /\ results.confidence = One)

\* a returned verdict for three claims checked against an empty index
C20_ClaimsAgainstEmptyIndex ==
    /\ indexEmpty /\ qpc = "done"
    /\ Len(Claims) = 3
    /\ results.is_supported = FALSE

\* the bodies the boundary is to refuse
Malformed == Bodies \ {"ok"}

\* C21: once the checker is available, a request whose body is missing, has
\* no message field, has a blank message or a message that is not a string is
\* answered 400, and never reaches simple_fact_check (no 200 answer).
C21_MalformedIsClientError ==
    \A a \in answers : (a[3] \in Malformed /\ a[1] # 503) => a[1] = 400

\* the document is indexed: it has chunks and all of them are in the store
Indexed(d) == NewChunkIds(d) # {} /\ AllChunksIn(store, d)

\* C22: a document whose ingestion failed or was skipped is detected as
\* changed by the next sweep: after a sweep that ran to its end, a document
\* of the directory whose fingerprint on disk equals the file is indexed.
C22_UnindexedIsRetried ==
    (pc = "idle" /\ lastEnd \in {"clean", "trouble"})
        => \A d \in Present : ~FingerprintDiffers(d) => Indexed(d)

-----------------------------------------------------------------------------
(* get_database_stats: one call on a store that nothing else writes        *)

\* batch_size of the scan
StatsBatchSize == 50

\* largest store tried
MaxStore == 101

StoreSizes == {0, 1, StatsBatchSize - 1, StatsBatchSize, StatsBatchSize + 1,
               2 * StatsBatchSize, MaxStore}

\* the source names of the entries: runs of `run` entries per document, the
\* documents taking turns
SourceNames == <<"A.pdf", "B.pdf", "C.pdf">>
Runs == {1, 15, 30, 60}
MkCollection(n, run) == [i \in 1 .. n |-> SourceNames[(((i - 1) \div run) % 3) + 1]]

\* collection.get(limit=batch_size, offset=offset): the page of entries
GetPage(off) ==
    SubSeq(collection, off + 1, Min(Len(collection), off + StatsBatchSize))

\* a scan that leaves out every other page
SkipPage(off) == off + 2 * StatsBatchSize

\* offset += batch_size
NextOffset(off) == off + StatsBatchSize

StatsResult ==
    [error |-> FALSE, total_chunks |-> total_chunks,
     unique_sources |-> Cardinality(stat_sources), sources |-> stat_sources]

StatsInit ==
    /\ ChunkParked /\ SweepParked /\ QueryParked /\ ApiParked /\ MemoryParked /\ PagesParked
    /\ \E n \in StoreSizes, run \in Runs : collection = MkCollection(n, run)
    /\ total_chunks = 0
    /\ stat_sources = {}
    /\ offset = 0
    /\ gpc = "entry"
    /\ stats = [error |-> FALSE, total_chunks |-> 0, unique_sources |-> 0, sources |-> {}]

\* lines 575-579 and 598-600: collection.count(), or it raises and the error
\* dict is returned
StatsCount(ok) ==
    /\ gpc = "entry"
    /\ IF ok
       THEN /\ total_chunks' = Len(collection)
            /\ gpc' = "scan"
            /\ UNCHANGED stats
       ELSE /\ stats' = [error |-> TRUE, total_chunks |-> 0, unique_sources |-> 0, sources |-> {}]
            /\ gpc' = "done"
            /\ UNCHANGED total_chunks
    /\ UNCHANGED <<collection, stat_sources, offset>>
    /\ UNCHANGED <<cvars, svars, qvars, avars, mvars, pvars>>

\* lines 581-597: one turn of the scan: a page is read and its sources are
\* added, or the page is empty or get() raises and the loop is left
StatsPage(ok) ==
    /\ gpc = "scan"
    /\ LET batch == GetPage(offset)
       IN  IF ok /\ batch # <<>>
           THEN /\ stat_sources' = stat_sources \cup { batch[i] : i \in 1 .. Len(batch) }
                /\ offset' = NextOffset(offset)
                /\ UNCHANGED <<gpc, stats>>
           ELSE /\ stats' = StatsResult
                /\ gpc' = "done"
                /\ UNCHANGED <<stat_sources, offset>>
    /\ UNCHANGED <<collection, total_chunks>>
    /\ UNCHANGED <<cvars, svars, qvars, avars, mvars, pvars>>

StatsNext ==
    \/ \E ok \in BOOLEAN : StatsCount(ok)
    \/ \E ok \in BOOLEAN : StatsPage(ok)

StatsSpec == StatsInit /\ [][StatsNext]_vars

\* the distinct source names over all entries of the store
AllSources == { collection[i] : i \in 1 .. Len(collection) }

\* the scan has read every page: it was not cut short by a failing get()
ScanComplete == offset >= Len(collection)

\* C23: get_database_stats returns total_chunks = the number of entries,
\* sources = the set of distinct source names over all entries when the scan
\* has read every page (never a name that is not in the store), and
\* unique_sources = the size of that set, for any store size.
C23_StatsMatchStore ==
    (gpc = "done" /\ ~stats.error)
        => /\ stats.total_chunks = Len(collection)
           /\ stats.sources \subseteq AllSources
           /\ ScanComplete => stats.sources = AllSources
           /\ stats.unique_sources = Cardinality(stats.sources)

\* statistics returned for a store of more than two pages whose third
\* document first appears on the second page
C23_ThreePageScan ==
    /\ gpc = "done" /\ ~stats.error /\ ScanComplete
    /\ Len(collection) > 2 * StatsBatchSize
    /\ stats.unique_sources = 3
    /\ \A i \in 1 .. StatsBatchSize : collection[i] # "C.pdf"

-----------------------------------------------------------------------------
(* Further claims about chunk_text_with_overlap (ChunkSpec) *)

\* C24: every iteration of the windowing loop strictly increases start: the
\* new start, end - overlap, is greater than the start of the window just
\* visited, also when end has reached the end of the text.
C24_CursorProgress ==
    [][cpc = "advance" => start' > start]_vars

\* the snapping of the claim: both thresholds measured from the window's start
SnapFromWindowStart(t, s, size) ==
    LET e0 == HardEnd(t, s, size)
        c0 == Slice(t, s, e0)
    IN  IF e0 < Len(t) /\ ~IsSpace(CharAt(t, e0))
        THEN IF SentenceEnd(t, c0) > size \div 3
             THEN s + SentenceEnd(t, c0) + 1
             ELSE IF LastSpace(t, c0) > size \div 2
                  THEN s + LastSpace(t, c0)
                  ELSE e0
        ELSE e0

\* C25: for every window, also one with start > 0, the end the iteration
\* settles on is: just after the last sentence terminator of the window when
\* that lies beyond one third of the window, else the last space of the
\* window when that lies beyond half the window, else the hard cut.
C25_SnapMeasuredFromWindowStart ==
    [][cpc = "loop" /\ cpc' = "advance" /\ start >= 0
         => end' = SnapFromWindowStart(text, start, chunk_size)]_vars

-----------------------------------------------------------------------------
(* The chunking scenario: chunk size 300, overlap 50, texts of 700 letters *)
(* with one space and no sentence terminator (ScenarioSpec)                *)

ScenarioLen == 700

\* where the space is put: inside the first window before and after its
\* middle, at its last position, at the hard cut, and behind it
SpacePositions == {140, 150, 151, 200, 260, 299, 300, 310, 320} \cup 280 .. 290

ScenarioInit ==
    /\ SweepParked /\ QueryParked /\ ApiParked /\ StatsParked /\ MemoryParked /\ PagesParked
    /\ \E sp \in SpacePositions : text = MkText(ScenarioLen, sp, -1)
    /\ chunk_size = 300
    /\ overlap = 50
    /\ start = 0
    /\ end = 0
    /\ chunks = <<>>
    /\ cpc = "entry"
    /\ cexit = "none"
    /\ result = <<>>
    /\ windows = {}

ScenarioSpec == ScenarioInit /\ [][ChunkNext]_vars

\* the text of the scenario: its space is at position 310
SpaceAt310 == text[311] = " "

\* the loop is about to visit its second window
SecondWindowNext == cpc = "loop" /\ Cardinality(windows) = 1

\* C26 as claimed: in the scenario the first window ends at 310 and the
\* second window starts at 260.
C26_FirstWindowEndsAtSpace ==
    SpaceAt310 =>
       /\ \A w \in windows : w[1] = 0 => w[2] = 310
       /\ SecondWindowNext => start = 260

\* C26 amended: in the scenario the first window ends at the hard cut 300 (the
\* space at 310 is not in the window) and the second window starts at 250.
C26_FirstWindowEndsAtHardCut ==
    SpaceAt310 =>
       /\ \A w \in windows : w[1] = 0 => w[2] = 300
       /\ SecondWindowNext => start = 250

\* the scenario's call has visited its first window and is at the second
C26_SecondWindowReached ==
    SpaceAt310 /\ SecondWindowNext /\ <<0, 300>> \in windows

-----------------------------------------------------------------------------
(* Further claims about the ingestion sweep (Spec) *)

\* the sweep is about to add the first chunk of the document d
FirstBatchNext(d) == pc = "batch" /\ batch_idx = 0 /\ Head(queue) = d

\* C27: when a sweep adds the first chunk of a document's new version, no
\* chunk with that document's source name is left in the store, also when
\* the document has no stored fingerprint.
C27_DeleteBeforeInsert ==
    \A d \in Docs : FirstBatchNext(d) => ChunksOf(d) = {}

\* C28: a document for which a step failed in this sweep, in particular the
\* embedding or the adding of one of its batches, has no up-to-date
\* fingerprint in the file the sweep writes: the next sweep finds it changed.
C28_FailedBatchNotCommitted ==
    [][pc = "write" /\ metaFile'.ok =>
         \A d \in failedDocs :
            \/ d \notin DOMAIN metaFile'.map
            \/ metaFile'.map[d] # GetPdfInfo(d)]_vars

\* C29: once a batch of a document has failed, no later batch of that
\* document is added to the store in that sweep.
C29_RemainingBatchesAborted ==
    [][pc = "batch" /\ Head(queue) \in failedDocs => store' = store]_vars

\* the sweep is working on a document
ProcessingDocument == pc \in {"remove", "process", "batch", "hung"}

\* C30: when the sweep begins the next document, the fingerprint of every
\* document it has ingested so far is in the fingerprint file.
C30_FingerprintOnDiskBeforeNextDocument ==
    ProcessingDocument => Ingested = {}

-----------------------------------------------------------------------------
(* MemoryMonitor.check_memory: one call at a checkpoint (MemSpec)          *)

\* most memory the process is seen to hold, in GB
MaxRss == 6

\* max_memory_gb: the constructor's default and the API's setting
Ceilings == {3, 4}

\* the call sites: lines 41-62, 175, 213, 265, 362
Checkpoints == {"Initial", "Removing chunks batch", "Before processing", "Page", "After batch"}

\* memory_info.rss > self.max_memory_bytes
OverCeiling(sample) == sample > max_memory_gb

MemInit ==
    /\ ChunkParked /\ SweepParked /\ QueryParked /\ ApiParked /\ StatsParked
    /\ PagesParked
    /\ max_memory_gb \in Ceilings
    /\ rss \in 0 .. MaxRss
    /\ checkpoint \in Checkpoints
    /\ sampled = <<>>
    /\ collected = 0
    /\ mpc = "check"
    /\ mexit = "none"
    /\ memory_gb = 0

\* the except clause of lines 646-648: whatever was raised inside the try,
\* MemoryError included, is logged and 0 is returned
MemHandler ==
    /\ mpc' = "done"
    /\ mexit' = "returned"
    /\ memory_gb' = 0

\* lines 626-635 and 646: the first sample; psutil may raise. Over the
\* ceiling, gc.collect() runs and leaves the process with `after` GB
MemCheck(ok, after) ==
    /\ mpc = "check"
    /\ IF ~ok
       THEN /\ MemHandler
            /\ after = rss
            /\ UNCHANGED <<rss, sampled, collected>>
       ELSE /\ sampled' = Append(sampled, rss)
            /\ IF OverCeiling(rss)
               THEN /\ collected' = collected + 1
                    /\ rss' = after
                    /\ mpc' = "recheck"
                    /\ UNCHANGED <<mexit, memory_gb>>
               ELSE /\ after = rss
                    /\ mpc' = "done"
                    /\ mexit' = "returned"
                    /\ memory_gb' = rss
                    /\ UNCHANGED <<rss, collected>>
    /\ UNCHANGED <<max_memory_gb, checkpoint>>
    /\ UNCHANGED <<cvars, svars, qvars, avars, tvars, pvars>>

\* lines 638-646: the second sample; still over the ceiling, MemoryError is
\* raised inside the try and handled by the method's own except clause
MemRecheck ==
    /\ mpc = "recheck"
    /\ sampled' = Append(sampled, rss)
    /\ IF OverCeiling(rss)
       THEN MemHandler
       ELSE /\ mpc' = "done"
            /\ mexit' = "returned"
            /\ memory_gb' = rss
    /\ UNCHANGED <<max_memory_gb, rss, checkpoint, collected>>
    /\ UNCHANGED <<cvars, svars, qvars, avars, tvars, pvars>>

MemNext ==
    \/ \E ok \in BOOLEAN, after \in 0 .. MaxRss : MemCheck(ok, after)
    \/ MemRecheck

MemSpec == MemInit /\ [][MemNext]_vars

\* both samples of the call were over the ceiling
StillOverCeiling ==
    Len(sampled) = 2 /\ OverCeiling(sampled[1]) /\ OverCeiling(sampled[2])

\* C31: when memory is over the ceiling at a checkpoint, one reclaim pass is
\* forced and memory is sampled again; if it is still over the ceiling the
\* call raises to its caller (which aborts the current document).
C31_StillOverCeilingRaises ==
    /\ (Len(sampled) = 2 => collected = 1 /\ OverCeiling(sampled[1]))
    /\ (mpc = "done" /\ StillOverCeiling => mexit = "raised")

-----------------------------------------------------------------------------
(* Further claims about simple_fact_check (FactSpec) *)

\* C32: for any message, a call issues at most five retrieval queries and
\* returns at most five claim results.
C32_AtMostFiveQueries ==
    /\ Len(retrievals) <= 5
    /\ Len(Claims) <= 5

\* a returned verdict of five claim results for a message of six claims
C32_SixClaimsFiveEvaluated ==
    /\ qpc = "done" /\ ~results.error
    /\ Len(SelectSeq(Fragments, IsClaim)) = 6
    /\ Len(retrievals) = 5
    /\ Len(Claims) = 5

-----------------------------------------------------------------------------
(* Further claims about the ingestion sweep (Spec) *)

\* the documents a sweep looks at whose stat() succeeded
Looked(bad) == SelectSeq(Considered, LAMBDA d : d \notin bad)

-----------------------------------------------------------------------------
(* The page loop of _process_single_pdf (PageSpec) *)

\* the literal 100 of line 252
PageCap == 100

\* the page counts and the page numbers (from 0) that are tried as failing or
\* empty pages
PageCounts == {0, 1, 2, PageCap, PageCap + 1}
OddPages == {0, 1, PageCap - 1, PageCap}

PageDocs ==
    { pd \in [count : PageCounts, bad : SUBSET OddPages, blank : SUBSET {0, 1}] :
        \A q \in pd.bad \cup pd.blank : q < pd.count }

\* a loop that reads every page of the document
AllPages(n) == n

\* max_pages = min(page_count, 100)
MaxPages(n) == Min(n, PageCap)

\* a handler that gives the document up when a page raises
PageErrorAborts == "raised"

\* lines 268-270: the page's exception is logged and the loop continues
PageErrorContinues == "pages"

PageInit ==
    /\ ChunkParked /\ SweepParked /\ QueryParked /\ ApiParked /\ StatsParked
    /\ MemoryParked
    /\ doc \in PageDocs
    /\ page_num = 0
    /\ page_text = <<>>
    /\ ppc = "open"

\* line 247: pymupdf.open returns the document, or raises (lines 304-306)
PdfOpen(ok) ==
    /\ ppc = "open"
    /\ ppc' = IF ok THEN "pages" ELSE "raised"
    /\ UNCHANGED <<doc, page_num, page_text>>
    /\ UNCHANGED <<cvars, svars, qvars, avars, tvars, mvars>>

\* lines 255-270: one turn of the loop. doc[page_num] or get_text() raises
\* for a bad page; a page with text is appended; check_memory (every tenth
\* page) returns on every path
PageTurn ==
    /\ ppc = "pages"
    /\ page_num < MaxPages(doc.count)
    /\ IF page_num \in doc.bad
       THEN /\ ppc' = PageErrorContinues
            /\ UNCHANGED page_text
       ELSE /\ page_text' = IF page_num \in doc.blank
                            THEN page_text
                            ELSE Append(page_text, page_num)
            /\ UNCHANGED ppc
    /\ page_num' = page_num + 1
    /\ UNCHANGED doc
    /\ UNCHANGED <<cvars, svars, qvars, avars, tvars, mvars>>

\* lines 272-277: after the loop, a document without text is skipped, any
\* other goes on to clean_text and the chunker
PagesDone ==
    /\ ppc = "pages"
    /\ page_num >= MaxPages(doc.count)
    /\ ppc' = IF page_text = <<>> THEN "skipped" ELSE "clean"
    /\ UNCHANGED <<doc, page_num, page_text>>
    /\ UNCHANGED <<cvars, svars, qvars, avars, tvars, mvars>>

PageNext ==
    \/ \E ok \in BOOLEAN : PdfOpen(ok)
    \/ PageTurn
    \/ PagesDone

PageSpec == PageInit /\ [][PageNext]_vars

\* the pages below n that have text and whose extraction works
GoodPages(n) == { q \in 0 .. (n - 1) : q \notin doc.bad /\ q \notin doc.blank }

\* the numbers in s, in ascending order
RECURSIVE Ordered(_)
Ordered(s) ==
    IF s = {} THEN <<>>
    ELSE LET lo == CHOOSE q \in s : \A o \in s : q <= o
         IN  <<lo>> \o Ordered(s \ {lo})

\* C34: a page whose extraction raises is skipped and nothing else is lost:
\* the text that goes on to cleaning and chunking is that of all the other
\* pages among the first 100, in page order, and the document is given up
\* only when it cannot be opened or when none of those pages has text.
C34_FailedPageSkipped ==
    /\ ppc \in {"pages", "clean", "skipped"} => page_text = Ordered(GoodPages(page_num))
    /\ ppc \in {"clean", "skipped"} => page_num = Min(doc.count, PageCap)
    /\ ppc = "skipped" => GoodPages(Min(doc.count, PageCap)) = {}
    /\ ppc = "raised" => page_num = 0

\* a document with a failing page among its first 100 has gone on to
\* cleaning with the text of its other pages
C34_IngestedWithoutFailedPage ==
    /\ ppc = "clean"
    /\ \E q \in doc.bad : q < PageCap
    /\ page_text # <<>>

-----------------------------------------------------------------------------
(* Further claims about the ingestion sweep, continued (Spec) *)

\* the chunk indices stored for document d
StoredIndices(d) == { r.chunk_id : r \in ChunksOf(d) }

\* C35: after a sweep that returned, the chunk indices stored for each
\* document are 0 .. n-1 for some n, whichever batches succeeded.
C35_ContiguousChunkIndices ==
    (pc = "idle" /\ lastEnd \in {"clean", "trouble"}) =>
        \A d \in Docs : StoredIndices(d) = 0 .. (Cardinality(StoredIndices(d)) - 1)

-----------------------------------------------------------------------------
(* Further claims about simple_fact_check, continued (FactSpec) *)

\* the fragments the call retains: the first five longer than 10 characters
Retained ==
    LET long == SelectSeq(Fragments, LAMBDA ch : ChunkLen(ch) > MinSentenceLen)
    IN  SubSeq(long, 1, Min(Len(long), MaxSentences))

\* C36: when none of the retained fragments of a message has 20 characters or
\* more, the call issues no retrieval and returns is_supported = true,
\* confidence 1.0, no claim result and no source.
C36_VacuousVerdict ==
    (/\ qpc = "done"
     /\ msgIsStr
     /\ \A i \in 1 .. Len(Retained) : ~IsClaim(Retained[i])) =>
        /\ retrievals = <<>>
        /\ ~results.error
        /\ results.is_supported
        /\ results.confidence = One
        /\ results.claim_results = <<>>
        /\ results.sources = <<>>

\* a message whose retained fragments are all shorter than 20 characters,
\* followed by a longer one that is not retained, has been answered
C36_OnlyShortFragments ==
    /\ qpc = "done"
    /\ msgIsStr
    /\ Retained # <<>>
    /\ \E i \in 1 .. Len(Fragments) : IsClaim(Fragments[i])
    /\ \A i \in 1 .. Len(Retained) : ~IsClaim(Retained[i])
    /\ results.is_supported /\ results.confidence = One

\* C37: the status of a response depends on the overall confidence only:
\* verified for 1.0, partial for 0.6, unverified for 0.0. A verdict with an
\* unsupported claim is reported as partial, and unverified is reported only
\* for a verdict of the error path.
C37_StatusFromConfidence ==
    qpc = "answered" =>
        /\ status = CASE results.confidence = One -> "verified"
                      [] results.confidence = Floor -> "partial"
                      [] results.confidence = 0 -> "unverified"
                      [] OTHER -> "none"
        /\ (\E i \in 1 .. Len(Claims) : Unsupported(i)) =>
               results.confidence = Floor /\ status = "partial"
        /\ status = "unverified" => results.error

\* a verdict with a supported and an unsupported claim has been reported as partial
C37_UnsupportedReportedPartial ==
    /\ qpc = "answered"
    /\ ~results.is_supported
    /\ \E i \in 1 .. Len(Claims) : Unsupported(i)
    /\ \E i \in 1 .. Len(Claims) : ~Unsupported(i)
    /\ status = "partial"

\* the fragments longer than 10 characters, in message order
Candidates == SelectSeq(Fragments, LAMBDA ch : ChunkLen(ch) > MinSentenceLen)

\* C38: the cap of five is applied to the fragments longer than 10 characters
\* before the 20-character minimum: every retrieval and every claim result is
\* for one of the first five such fragments, and when those five all have
\* fewer than 20 characters a later fragment of 20 or more is not evaluated.
C38_CapBeforeLengthFilter ==
    msgIsStr /\ qpc # "entry" =>
        /\ sentences = SubSeq(Candidates, 1, Min(Len(Candidates), MaxSentences))
        /\ \A i \in 1 .. Len(Claims) :
              \E k \in 1 .. Len(sentences) : Claims[i].claim = sentences[k]
        /\ (/\ qpc \in {"done", "answered"}
            /\ \A k \in 1 .. Len(sentences) : ~IsClaim(sentences[k])) =>
              retrievals = <<>> /\ Claims = <<>>

\* five fragments of 11 to 19 characters followed by a claim of 26: the call
\* has returned without evaluating it
C38_ClaimAfterFiveShortFragments ==
    /\ qpc = "done" /\ msgIsStr
    /\ Len(Candidates) = 6
    /\ \A k \in 1 .. 5 : ~IsClaim(Candidates[k])
    /\ IsClaim(Candidates[6])
    /\ retrievals = <<>> /\ Claims = <<>>

-----------------------------------------------------------------------------
(* A further claim about the API process (ApiSpec) *)

\* the handlers that wait for factchecker_lock or work on the store behind it
AtTheStore == { h \in Handlers : tpc[h] \in {"acquire", "query", "acquire_stats", "stats"} }

\* C39: the global checker is set only after the constructor, and with it
\* the initial sweep, has returned; while it is None (the construction still
\* runs, or has failed) every request to the fact-check and to the statistics
\* endpoint is answered 503 at once and no handler goes on to the store.
C39_PublishedAfterInitialSweep ==
    /\ [](factchecker # "None" => tpc["init"] = "done")
    /\ [](AtTheStore # {} => tpc["init"] = "done")
    /\ [][(factchecker = "None" /\ calls' = calls + 1) =>
            /\ tpc' = tpc
            /\ \E a \in answers' : a[1] = 503 /\ answers' = answers \cup {a}]_vars

\* both endpoints have answered 503 while the initial sweep is replacing a
\* document
C39_RefusedDuringInitialSweep ==
    /\ tpc["init"] \in InSweepBody
    /\ phase \in {"deleted", "partial"}
    /\ <<503, "none", "stats">> \in answers
    /\ <<503, "none", "ok">> \in answers

\* the documents the sweep that is saving has processed: those it looked at
\* and reported as changed against the map it read
ProcessedInSweep ==
    { d \in Members(Considered) :
        /\ d \notin unreadable
        /\ ~loads[1] \/ IsNewOrUpdated(oldFile.map, d) }

\* C40: a sweep that writes the fingerprint file leaves the entry of every
\* document it did not process as it was before the sweep, also when a read
\* of the file failed during the sweep.
C40_FingerprintFrame ==
    [][(pc = "write" /\ pc' = "idle" /\ metaFile'.ok) =>
          \A d \in (DOMAIN oldFile.map) \ ProcessedInSweep :
             /\ d \in DOMAIN metaFile'.map
             /\ metaFile'.map[d] = oldFile.map[d]]_vars

====
